---- MODULE Spec2Model ----
\* Model of eucalyptus/src/scripts/convert_model_to_image.py: the thumbnail
\* script's path walk (process_path), ProcessModel construction and render.
\* Paths and file names are sequences of one-character strings so that
\* os.path.splitext / dirname / basename / join and str.lower are computed,
\* not assumed.
EXTENDS Integers, Sequences, FiniteSets, TLC

VARIABLES
    files,      \* filesystem: regular files, path -> content (sequence of bytes)
    dirs,       \* filesystem: set of directory paths
    unreadable, \* regular files whose open(..., "rb") fails with an OSError
    readonly,   \* regular files whose open(..., "wb") fails with an OSError
    pc,         \* position of process_path: "idle", "walk", "done", "crashed"
    path,       \* argument of the current process_path call
    report,     \* which branch of process_path reported (first print)
    listing,    \* the list os.listdir returned for the current walk
    idx,        \* index in listing of the next entry of the for loop
    log,        \* ProcessModel(...).render() calls made by the current process_path
    subject,    \* direct use of the class: the model path given to ProcessModel
    stub,       \* direct use of the class: what the renderer does for subject
    pm,         \* direct use of the class: the ProcessModel object held
    last        \* direct use of the class: record of the latest pm.render()

vars == <<files, dirs, unreadable, readonly, pc, path, report, listing, idx, log,
          subject, stub, pm, last>>

----------------------------------------------------------------------------
\* Bounds of the model

MaxEntries == 2   \* model entries placed in the walked directory
MaxViews == 2     \* entries in the mapping process_stl returns
NumImages == 2    \* distinct image contents a renderer can produce

----------------------------------------------------------------------------
\* Strings

UpperChars == <<"O", "B", "J", "G", "L", "S", "T">>
LowerChars == <<"o", "b", "j", "g", "l", "s", "t">>

\* str.lower() on one character
LowerChar(c) ==
    IF \E i \in 1..Len(UpperChars) : UpperChars[i] = c
    THEN LowerChars[CHOOSE i \in 1..Len(UpperChars) : UpperChars[i] = c]
    ELSE c

\* str.lower()
lower(s) == [i \in 1..Len(s) |-> LowerChar(s[i])]

\* str.rfind(ch), 1-based; 0 when ch does not occur
rfind(s, ch) ==
    IF \E i \in 1..Len(s) : s[i] = ch
    THEN CHOOSE i \in 1..Len(s) : s[i] = ch /\ \A j \in (i+1)..Len(s) : s[j] # ch
    ELSE 0

\* str.rstrip("/")
RECURSIVE rstripSep(_)
rstripSep(s) ==
    IF Len(s) > 0 /\ s[Len(s)] = "/" THEN rstripSep(SubSeq(s, 1, Len(s) - 1)) ELSE s

\* os.path.splitext: <<root, ext>>; a leading run of dots in the base name
\* is not an extension separator
splitext(p) ==
    LET sepIndex == rfind(p, "/")
        dotIndex == rfind(p, ".")
    IN  IF dotIndex > sepIndex /\ \E i \in (sepIndex + 1)..(dotIndex - 1) : p[i] # "."
        THEN <<SubSeq(p, 1, dotIndex - 1), SubSeq(p, dotIndex, Len(p))>>
        ELSE <<p, <<>>>>

\* os.path.basename
basename(p) == SubSeq(p, rfind(p, "/") + 1, Len(p))

\* os.path.dirname
dirname(p) ==
    LET head == SubSeq(p, 1, rfind(p, "/"))
    IN  IF head # <<>> /\ \E i \in 1..Len(head) : head[i] # "/"
        THEN rstripSep(head)
        ELSE head

\* os.path.join(a, b)
join(a, b) ==
    IF Len(b) > 0 /\ b[1] = "/" THEN b
    ELSE IF a = <<>> \/ a[Len(a)] = "/" THEN a \o b
    ELSE a \o <<"/">> \o b

----------------------------------------------------------------------------
\* Names and paths of the modelled filesystem

Root == <<"/">>
ModelsDir == <<"/", "m">>
MissingDir == <<"/", "x">>
ThumbnailsName == <<"t", "h", "u", "m", "b", "n", "a", "i", "l", "s">>
PngExt == <<".", "p", "n", "g">>

AObj == <<"a", ".", "o", "b", "j">>
AStl == <<"a", ".", "S", "T", "L">>
BGlb == <<"b", ".", "g", "l", "b">>
CJpg == <<"c", ".", "j", "p", "g">>
DDir == <<"d", ".", "o", "b", "j">>      \* a directory whose name ends in .obj
EObj == <<"e", ".", "o", "b", "j">>      \* a model inside that directory

\* SUPPORTED_EXTS
SUPPORTED_EXTS == { <<".", "o", "b", "j">>, <<".", "g", "l", "b">>, <<".", "s", "t", "l">> }

EntryNames == {AObj, AStl, BGlb, CJpg, DDir}

\* content of the model files on disk
ModelBytes(name) == IF name = BGlb THEN <<8, 9>> ELSE <<9>>

OldPng == <<0>>   \* content of a thumbnail left by an earlier run

----------------------------------------------------------------------------
\* Filesystem queries

\* os.path.isdir
isdir(p, d) == p \in d \/ (Len(p) > 1 /\ rstripSep(p) \in d)

\* os.path.isfile
isfile(p, f) == p \in DOMAIN f

\* os.path.exists
exists(p, d, f) == isdir(p, d) \/ isfile(p, f)

\* os.listdir: the names of the direct entries, as a set (order is the platform's)
listdirSet(p, d, f) ==
    { basename(q) : q \in { r \in (d \cup DOMAIN f) : r # Root /\ dirname(r) = rstripSep(p) } }

\* all orders in which os.listdir may return a set of names
Orders(S) ==
    { s \in [1..Cardinality(S) -> S] : \A i, j \in 1..Cardinality(S) : i # j => s[i] # s[j] }

\* os.makedirs(name, exist_ok=True): creates name and its missing ancestors;
\* raises when name, or the place an ancestor is needed, is a regular file
RECURSIVE makedirs(_, _, _)
makedirs(name, d, f) ==
    LET head == dirname(name)
        pre  == IF head # <<>> /\ ~exists(head, d, f)
                THEN makedirs(head, d, f)
                ELSE [ok |-> TRUE, dirs |-> d]
    IN  IF ~pre.ok THEN pre
        ELSE IF name \in pre.dirs THEN pre
        ELSE IF name \in DOMAIN f \/ head \notin pre.dirs THEN [ok |-> FALSE, dirs |-> pre.dirs]
        ELSE [ok |-> TRUE, dirs |-> pre.dirs \cup {name}]

\* variant: the file opened with "ab", the bytes added to what it holds
WriteFileAppend(f, p, b) ==
    [q \in DOMAIN f \cup {p} |-> IF q = p THEN (IF p \in DOMAIN f THEN f[p] ELSE <<>>) \o b ELSE f[q]]

\* open(p, "wb"); f.write(b): the file holds exactly b afterwards
WriteFile(f, p, b) == [q \in DOMAIN f \cup {p} |-> IF q = p THEN b ELSE f[q]]

----------------------------------------------------------------------------
\* Values the external renderers (model_to_image) hand back

None == [kind |-> "none", bytes |-> <<>>]
ErrStr == [kind |-> "str", bytes |-> <<>>]          \* a non-empty str (error text)
BytesIO(b) == [kind |-> "buf", bytes |-> b]         \* io.BytesIO holding b

Images == { <<i>> : i \in 1..NumImages }
Values == {None, ErrStr} \cup { BytesIO(b) : b \in Images }

\* Python truth value of a renderer value
Truthy(v) == v.kind # "none"

\* a view of an STL result is an image buffer or None
ViewPairs ==
    { [key |-> k, val |-> v] : k \in {"front", "side", "top"}, v \in Values \ {ErrStr} }
        \cup { [key |-> "error", val |-> ErrStr] }

\* the dicts process_stl may return, as insertion-ordered key/value sequences
StlDicts ==
    UNION { { s \in [1..n -> ViewPairs] : \A i, j \in 1..n : i # j => s[i].key # s[j].key }
            : n \in 0..MaxViews }

\* key in dict
HasKey(m, k) == \E i \in 1..Len(m) : m[i].key = k

\* dict[key]
Get(m, k) == m[CHOOSE i \in 1..Len(m) : m[i].key = k].val

\* what one renderer call does: raise, or return a value (OBJ, GLB) / a dict (STL)
ValueOutcomes ==
    { [raises |-> FALSE, value |-> v, views |-> <<>>] : v \in Values }
        \cup { [raises |-> TRUE, value |-> None, views |-> <<>>] }
StlOutcomes ==
    { [raises |-> FALSE, value |-> None, views |-> m] : m \in StlDicts }
        \cup { [raises |-> TRUE, value |-> None, views |-> <<>>] }
NoOutcome == [raises |-> FALSE, value |-> None, views |-> <<>>]

----------------------------------------------------------------------------
\* class ProcessModel

\* ProcessModel.__init__(model_path): the new object and the directories
\* after os.makedirs(thumbnails_dir, exist_ok=True); ok = FALSE when it raises
ProcessModel(model_path, d, f) ==
    LET model_dir      == dirname(model_path)
        model_name     == splitext(basename(model_path))[1]
        thumbnails_dir == join(model_dir, ThumbnailsName)
        md             == makedirs(thumbnails_dir, d, f)
    IN  [ok   |-> md.ok,
         dirs |-> md.dirs,
         obj  |-> [model_path     |-> model_path,
                   model_dir      |-> model_dir,
                   model_name     |-> model_name,
                   thumbnails_dir |-> thumbnails_dir,
                   output_dir     |-> join(thumbnails_dir, model_name \o PngExt)]]

\* variant: the extension compared without .lower()
ExtOfCaseSensitive(p) == splitext(p)[2]

\* the extension render() and process_path() look at
ExtOf(p) == lower(splitext(p)[2])

\* the if / elif chain of render(): the renderer an extension selects
Dispatch(ext) ==
    IF ext = <<".", "o", "b", "j">> THEN "process_obj"
    ELSE IF ext = <<".", "g", "l", "b">> THEN "glb_to_image"
    ELSE IF ext = <<".", "s", "t", "l">> THEN "process_stl"
    ELSE "unsupported"

\* variant: the loop without its break, the last truthy value wins
LastTruthy(m) ==
    IF \E i \in 1..Len(m) : Truthy(m[i].val)
    THEN m[CHOOSE i \in 1..Len(m) : Truthy(m[i].val) /\ \A j \in (i+1)..Len(m) : ~Truthy(m[j].val)].val
    ELSE None

\* the first truthy value of stl_images.values(), None when there is none
FirstTruthy(m) ==
    IF \E i \in 1..Len(m) : Truthy(m[i].val)
    THEN m[CHOOSE i \in 1..Len(m) : Truthy(m[i].val) /\ \A j \in 1..(i-1) : ~Truthy(m[j].val)].val
    ELSE None

\* variant: no preference for "front"
SelectViewNoFront(m) == FirstTruthy(m)

\* the STL branch's choice of image_bytes (stl_images has no "error" key)
SelectView(m) ==
    IF HasKey(m, "front") /\ Truthy(Get(m, "front"))
    THEN Get(m, "front")
    ELSE FirstTruthy(m)

\* result of one render() call
Result(ret, f, calls, selected, stl, wrote) ==
    [ret |-> ret, files |-> f, calls |-> calls, selected |-> selected, stl |-> stl, wrote |-> wrote]

\* variant: "if image_bytes:" in place of the isinstance test
SaveAnyTruthy(o, f, ro, calls, image_bytes, stl) ==
    IF Truthy(image_bytes)
    THEN IF o.output_dir \in ro
         THEN Result("raised", f, calls, image_bytes, stl, TRUE)
         ELSE Result("true", WriteFile(f, o.output_dir, image_bytes.bytes), calls, image_bytes, stl, TRUE)
    ELSE Result("false", f, calls, image_bytes, stl, FALSE)

\* the tail of render(): write the image when it is an io.BytesIO
Save(o, f, ro, calls, image_bytes, stl) ==
    IF image_bytes.kind = "buf"
    THEN IF o.output_dir \in ro
         THEN Result("raised", f, calls, image_bytes, stl, TRUE)
         ELSE Result("true", WriteFile(f, o.output_dir, image_bytes.bytes), calls, image_bytes, stl, TRUE)
    ELSE Result("false", f, calls, image_bytes, stl, FALSE)

\* the renderer call of each branch
PathCall(fn, o) == [fn |-> fn, arg |-> [kind |-> "path", data |-> o.model_path]]
BytesCall(fn, b) == [fn |-> fn, arg |-> [kind |-> "bytes", data |-> b]]

\* ProcessModel.render() on object o, the renderer behaving as r
render(o, f, ur, ro, r) ==
    LET fn == Dispatch(ExtOf(o.model_path))
    IN  IF fn = "process_obj"
        THEN IF r.raises
             THEN Result("raised", f, <<PathCall(fn, o)>>, None, <<>>, FALSE)
             ELSE Save(o, f, ro, <<PathCall(fn, o)>>, r.value, <<>>)
        ELSE IF fn = "glb_to_image"
        THEN IF ~isfile(o.model_path, f) \/ o.model_path \in ur
             THEN Result("raised", f, <<>>, None, <<>>, FALSE)
             ELSE IF r.raises
             THEN Result("raised", f, <<BytesCall(fn, f[o.model_path])>>, None, <<>>, FALSE)
             ELSE Save(o, f, ro, <<BytesCall(fn, f[o.model_path])>>, r.value, <<>>)
        ELSE IF fn = "process_stl"
        THEN IF r.raises
             THEN Result("raised", f, <<PathCall(fn, o)>>, None, <<>>, FALSE)
             ELSE IF HasKey(r.views, "error")
             THEN Result("false", f, <<PathCall(fn, o)>>, None, r.views, FALSE)
             ELSE Save(o, f, ro, <<PathCall(fn, o)>>, SelectView(r.views), r.views)
        ELSE Result("false", f, <<>>, None, <<>>, FALSE)

\* the record kept of the most recent render() call
Record(o, res, was) ==
    [model |-> o.model_path, target |-> o.output_dir, ret |-> res.ret, calls |-> res.calls,
     selected |-> res.selected, stl |-> res.stl, wrote |-> res.wrote, tick |-> 1 - was.tick]

NoRender ==
    [model |-> <<>>, target |-> <<>>, ret |-> "none", calls |-> <<>>,
     selected |-> None, stl |-> <<>>, wrote |-> FALSE, tick |-> 0]

----------------------------------------------------------------------------
\* Initial states. A process either runs the script (main -> process_path on
\* a models directory with up to MaxEntries entries) or imports the module
\* and uses class ProcessModel on one model, the renderer's behaviour for
\* that model being fixed. Either way a thumbnails entry may be left over
\* from an earlier run.

ThumbnailsDir == join(ModelsDir, ThumbnailsName)
APng == join(ThumbnailsDir, <<"a">> \o PngExt)

InitFiles(E, thumbs) ==
    LET P == { join(ModelsDir, n) : n \in E \ {DDir} }
               \cup (IF DDir \in E THEN {join(join(ModelsDir, DDir), EObj)} ELSE {})
               \cup (IF thumbs = "file" THEN {ThumbnailsDir} ELSE {})
               \cup (IF thumbs = "png" THEN {APng} ELSE {})
    IN  [q \in P |-> IF q = APng THEN OldPng
                     ELSE IF q = ThumbnailsDir THEN <<>>
                     ELSE ModelBytes(basename(q))]

InitDirs(E, thumbs) ==
    {Root, ModelsDir}
        \cup (IF DDir \in E THEN {join(ModelsDir, DDir)} ELSE {})
        \cup (IF thumbs \in {"dir", "png"} THEN {ThumbnailsDir} ELSE {})

\* arguments given to process_path
Inputs ==
    {ModelsDir, MissingDir, join(MissingDir, AObj)}
        \cup { join(ModelsDir, n) : n \in EntryNames }

\* arguments given to ProcessModel by a direct user of the class
Subjects ==
    { join(ModelsDir, n) : n \in {AObj, AStl, BGlb, CJpg} } \cup { join(MissingDir, AObj) }

NoObj ==
    [model_path |-> <<>>, model_dir |-> <<>>, model_name |-> <<>>,
     thumbnails_dir |-> <<>>, output_dir |-> <<>>]

\* what the renderer selected by path p's extension can do when called
OutcomesFor(p) ==
    LET fn == Dispatch(ExtOf(p))
    IN  IF fn = "process_stl" THEN StlOutcomes
        ELSE IF fn = "unsupported" THEN {NoOutcome}
        ELSE ValueOutcomes

InitFilesystem(E) ==
    \E thumbs \in {"absent", "dir", "file", "png"} :
        /\ files = InitFiles(E, thumbs)
        /\ dirs = InitDirs(E, thumbs)
        /\ unreadable \in SUBSET ({join(ModelsDir, BGlb)} \cap DOMAIN files)
        /\ readonly \in SUBSET ({APng} \cap DOMAIN files)

InitScript ==
    /\ \E E \in SUBSET EntryNames : Cardinality(E) \in 1..MaxEntries /\ InitFilesystem(E)
    /\ pc = "idle"
    /\ subject = <<>>
    /\ stub = NoOutcome

InitClass ==
    /\ InitFilesystem(EntryNames)
    /\ pc = "class"
    /\ subject \in Subjects
    /\ stub \in OutcomesFor(subject)

Init ==
    /\ InitScript \/ InitClass
    /\ path = <<>>
    /\ report = "none"
    /\ listing = <<>>
    /\ idx = 1
    /\ log = <<>>
    /\ pm = NoObj
    /\ last = NoRender

----------------------------------------------------------------------------
\* process_path

\* variant: the for loop's test without os.path.isfile
IsCandidateNoFileTest(fpath, fname, f) == ExtOf(fname) \in SUPPORTED_EXTS

\* the test of the for loop: a regular file with a supported extension
IsCandidate(fpath, fname, f) == isfile(fpath, f) /\ ExtOf(fname) \in SUPPORTED_EXTS

\* the entry of log for one render() call
LogEntry(o, res) ==
    [model |-> o.model_path, target |-> o.output_dir, ret |-> res.ret,
     bytes |-> IF res.ret = "true" THEN res.selected.bytes ELSE <<>>]

\* where process_path is after ProcessModel(...).render() on entry i of n
AfterRender(ret, i, n) ==
    IF ret = "raised" THEN "crashed" ELSE IF i >= n THEN "done" ELSE "walk"

\* process_path(p), p a directory: os.listdir(p), then the for loop
ProcessPathDir(p) ==
    /\ pc = "idle"
    /\ isdir(p, dirs)
    /\ \E order \in Orders(listdirSet(p, dirs, files)) :
        /\ listing' = order
        /\ pc' = IF Len(order) = 0 THEN "done" ELSE "walk"
    /\ path' = p
    /\ report' = "folder"
    /\ idx' = 1
    /\ log' = <<>>
    /\ UNCHANGED <<files, dirs, unreadable, readonly, subject, stub, pm, last>>

\* one iteration of the for loop on an entry that passes the test
LoopRender ==
    /\ pc = "walk"
    /\ LET fname == listing[idx]
           fpath == join(path, fname)
           c     == ProcessModel(fpath, dirs, files)
       IN  /\ IsCandidate(fpath, fname, files)
           /\ dirs' = c.dirs
           /\ IF c.ok
              THEN \E r \in OutcomesFor(fpath) :
                      LET res == render(c.obj, files, unreadable, readonly, r)
                      IN  /\ files' = res.files
                          /\ log' = Append(log, LogEntry(c.obj, res))
                          /\ pc' = AfterRender(res.ret, idx, Len(listing))
              ELSE /\ pc' = "crashed"
                   /\ UNCHANGED <<files, log>>
    /\ idx' = idx + 1
    /\ UNCHANGED <<unreadable, readonly, path, report, listing, subject, stub, pm, last>>

\* one iteration of the for loop on an entry that fails the test
LoopSkip ==
    /\ pc = "walk"
    /\ ~IsCandidate(join(path, listing[idx]), listing[idx], files)
    /\ idx' = idx + 1
    /\ pc' = IF idx >= Len(listing) THEN "done" ELSE "walk"
    /\ UNCHANGED <<files, dirs, unreadable, readonly, path, report, listing, log,
                   subject, stub, pm, last>>

\* variant: the elif branch without its extension test
IsSupportedFileAlways(p) == TRUE

\* the elif branch's test: the extension of a single file is supported
IsSupportedFile(p) == ExtOf(p) \in SUPPORTED_EXTS

\* process_path(p), p a regular file with a supported extension
ProcessPathFile(p) ==
    /\ pc = "idle"
    /\ ~isdir(p, dirs) /\ isfile(p, files)
    /\ IsSupportedFile(p)
    /\ path' = p
    /\ report' = "file"
    /\ listing' = <<>>
    /\ idx' = 1
    /\ LET c == ProcessModel(p, dirs, files)
       IN  /\ dirs' = c.dirs
           /\ IF c.ok
              THEN \E r \in OutcomesFor(p) :
                      LET res == render(c.obj, files, unreadable, readonly, r)
                      IN  /\ files' = res.files
                          /\ log' = <<LogEntry(c.obj, res)>>
                          /\ pc' = AfterRender(res.ret, 1, 1)
              ELSE /\ pc' = "crashed"
                   /\ log' = <<>>
                   /\ UNCHANGED files
    /\ UNCHANGED <<unreadable, readonly, subject, stub, pm, last>>

\* process_path(p), p a regular file with another extension
ProcessPathUnsupported(p) ==
    /\ pc = "idle"
    /\ ~isdir(p, dirs) /\ isfile(p, files)
    /\ ~IsSupportedFile(p)
    /\ path' = p
    /\ report' = "unsupported"
    /\ listing' = <<>>
    /\ idx' = 1
    /\ log' = <<>>
    /\ pc' = "done"
    /\ UNCHANGED <<files, dirs, unreadable, readonly, subject, stub, pm, last>>

\* process_path(p), p neither a directory nor a file
ProcessPathMissing(p) ==
    /\ pc = "idle"
    /\ ~isdir(p, dirs) /\ ~isfile(p, files)
    /\ path' = p
    /\ report' = "missing"
    /\ listing' = <<>>
    /\ idx' = 1
    /\ log' = <<>>
    /\ pc' = "done"
    /\ UNCHANGED <<files, dirs, unreadable, readonly, subject, stub, pm, last>>

----------------------------------------------------------------------------
\* the class used directly, outside process_path

\* pm = ProcessModel(subject)
NewProcessModel ==
    /\ pc = "class"
    /\ LET c == ProcessModel(subject, dirs, files)
       IN  /\ dirs' = c.dirs
           /\ pm' = IF c.ok THEN c.obj ELSE NoObj
    /\ UNCHANGED <<files, unreadable, readonly, pc, path, report, listing, idx, log,
                   subject, stub, last>>

\* pm.render()
CallRender ==
    /\ pc = "class"
    /\ pm # NoObj
    /\ LET res == render(pm, files, unreadable, readonly, stub)
       IN  /\ files' = res.files
           /\ last' = Record(pm, res, last)
    /\ UNCHANGED <<dirs, unreadable, readonly, pc, path, report, listing, idx, log,
                   subject, stub, pm>>

Next ==
    \/ \E p \in Inputs : ProcessPathDir(p)
    \/ LoopRender
    \/ LoopSkip
    \/ \E p \in Inputs : ProcessPathFile(p)
    \/ \E p \in Inputs : ProcessPathUnsupported(p)
    \/ \E p \in Inputs : ProcessPathMissing(p)
    \/ NewProcessModel
    \/ CallRender

Spec == Init /\ [][Next]_vars

----------------------------------------------------------------------------
\* Properties

\* the model paths of the render() calls of the current walk, in call order
Rendered == [k \in 1..Len(log) |-> log[k].model]

\* entries of the modelled filesystem that are model files, by name
IsModelName(n) == n \in {AObj, AStl, BGlb, EObj}

IsPrefix(s, t) == Len(s) <= Len(t) /\ \A k \in 1..Len(s) : s[k] = t[k]

\* a directory walk has ended, normally or by an exception
WalkEnded == report = "folder" /\ pc \in {"done", "crashed"}

\* pm.render() has been called at least once
HasRendered == last.ret # "none"

\* this step is a pm.render() call
IsRenderStep == last'.tick # last.tick

\* C1: in a directory walk a failure on one candidate (no buffer, error
\* descriptor, renderer raising, I/O error) never aborts the walk: when the
\* walk has ended, every candidate that comes later in the listing was
\* passed to render, and the earlier one yielded true or false.
C1_WalkNeverAborts ==
    WalkEnded =>
        \A i, j \in 1..Len(listing) :
            (i < j /\ IsModelName(listing[i]) /\ IsModelName(listing[j])) =>
                /\ \E k \in 1..Len(log) :
                      log[k].model = join(path, listing[i]) /\ log[k].ret \in {"true", "false"}
                /\ \E k \in 1..Len(log) : log[k].model = join(path, listing[j])

\* C2: for a model path with an unsupported extension, constructing
\* ProcessModel and calling render touches nothing: no directory is created,
\* no file is written, no renderer is invoked, and render returns failure.
C2_UnsupportedTouchesNothing ==
    [][ (pc = "class" /\ basename(subject) = CJpg) =>
            /\ dirs' = dirs
            /\ files' = files
            /\ last'.calls = <<>>
            /\ last'.ret \in {"none", "false"} ]_vars

\* C3: a render() that returns returns true exactly when the selected value
\* is an io.BytesIO, and then <model_dir>/thumbnails/<name>.png holds exactly
\* its bytes; on the failure branches (unsupported format, STL error
\* descriptor, every STL view empty, OBJ/GLB result None or not a buffer) it
\* returns false, attempts no write and leaves every file as it was.
C3_Target(m) ==
    IF m = MissingDir \o <<"/">> \o AObj
    THEN MissingDir \o <<"/">> \o ThumbnailsName \o <<"/", "a", ".", "p", "n", "g">>
    ELSE ModelsDir \o <<"/">> \o ThumbnailsName \o <<"/", basename(m)[1], ".", "p", "n", "g">>

C3_StateOk ==
    HasRendered =>
        /\ last.ret # "raised" => (last.ret = "true" <=> last.selected.kind = "buf")
        /\ last.ret = "true" =>
              /\ last.wrote
              /\ last.target \in DOMAIN files
              /\ files[last.target] = last.selected.bytes
              /\ last.target = C3_Target(last.model)
        /\ last.ret = "false" => ~last.wrote
        /\ basename(last.model) = CJpg => last.ret = "false"
        /\ (basename(last.model) = AStl /\ HasKey(last.stl, "error")) => last.ret = "false"
        /\ (basename(last.model) = AStl /\ ~stub.raises
                /\ \A i \in 1..Len(last.stl) : last.stl[i].val = None) => last.ret = "false"
        /\ (basename(last.model) \in {AObj, BGlb} /\ ~stub.raises /\ stub.value.kind # "buf")
              => last.ret \in {"false", "raised"} /\ ~last.wrote

C4_FrontPreferred ==
    (/\ HasRendered
     /\ basename(last.model) = AStl
     /\ ~stub.raises
     /\ ~HasKey(last.stl, "error")
     /\ \E i, j \in 1..Len(last.stl) :
           /\ i # j
           /\ last.stl[i].key = "front" /\ last.stl[i].val # None
           /\ last.stl[j].val # None)
    => \E i \in 1..Len(last.stl) : last.stl[i].key = "front" /\ last.selected = last.stl[i].val

C4_Witness ==
    /\ HasRendered
    /\ Len(last.stl) = 2
    /\ last.stl[1].key = "side" /\ last.stl[1].val = BytesIO(<<1>>)
    /\ last.stl[2].key = "front" /\ last.stl[2].val = BytesIO(<<2>>)
    /\ last.selected = BytesIO(<<2>>)
    /\ last.ret = "true"

\* C5: an STL result without error descriptor whose "front" view is absent
\* or empty and that has another non-empty view: the selected image is the
\* first non-empty view in the dict's insertion order.
C5_FirstNonEmpty ==
    (/\ HasRendered
     /\ basename(last.model) = AStl
     /\ ~stub.raises
     /\ ~HasKey(last.stl, "error")
     /\ \A i \in 1..Len(last.stl) : last.stl[i].key = "front" => last.stl[i].val = None
     /\ \E j \in 1..Len(last.stl) : last.stl[j].val # None)
    => \E j \in 1..Len(last.stl) :
          /\ last.stl[j].val # None
          /\ \A i \in 1..(j - 1) : last.stl[i].val = None
          /\ last.selected = last.stl[j].val

C5_Witness ==
    /\ HasRendered
    /\ Len(last.stl) = 2
    /\ last.stl[1].key = "top" /\ last.stl[1].val = BytesIO(<<2>>)
    /\ last.stl[2].key = "side" /\ last.stl[2].val = BytesIO(<<1>>)
    /\ last.selected = BytesIO(<<2>>)

\* C6: for a path whose extension is .obj, .glb or .stl in any letter case,
\* render invokes no renderer but the matching one, at most once, and a
\* render() that returns has invoked it exactly once: process_obj with the
\* path, glb_to_image with the file's whole content, process_stl with the path.
C6_Expected(m) ==
    IF basename(m) = AObj THEN [fn |-> "process_obj", arg |-> [kind |-> "path", data |-> m]]
    ELSE IF basename(m) = AStl THEN [fn |-> "process_stl", arg |-> [kind |-> "path", data |-> m]]
    ELSE [fn |-> "glb_to_image", arg |-> [kind |-> "bytes", data |-> <<8, 9>>]]

C7_ExpectedModels ==
    LET cand == SelectSeq(listing, IsModelName)
    IN  [k \in 1..Len(cand) |-> rstripSep(path) \o <<"/">> \o cand[k]]

C8_RenderIdempotent ==
    /\ [][ (IsRenderStep /\ last.ret = "true" /\ last'.model = last.model)
              => /\ last'.ret = "true"
                 /\ last'.target = last.target
                 /\ last'.selected = last.selected
                 /\ files' = files
                 /\ dirs' = dirs ]_vars
    /\ [][ pm # NoObj => (pm' = pm /\ dirs' = dirs) ]_vars

C8_Witness ==
    /\ last.ret = "true"
    /\ last.tick = 0
    /\ files[last.target] = last.selected.bytes

\* C9: process_path on a path that does not exist, or on a single file with
\* an unsupported extension, reports it and does nothing else: no
\* ProcessModel is constructed, no renderer is invoked, the filesystem is
\* unchanged.
C9_NoCandidates ==
    [][ (/\ pc = "idle" /\ pc' # "idle"
         /\ \/ ~exists(path', dirs, files)
            \/ (isfile(path', files) /\ basename(path') = CJpg))
        => /\ report' = (IF isfile(path', files) THEN "unsupported" ELSE "missing")
           /\ pc' = "done"
           /\ log' = <<>>
           /\ files' = files
           /\ dirs' = dirs ]_vars

C9_Witness ==
    /\ report = "unsupported"
    /\ pc = "done"
    /\ path = join(ModelsDir, CJpg)
    /\ ThumbnailsDir \notin dirs
    /\ ThumbnailsDir \notin DOMAIN files

\* C10: within one directory walk no output path is written by more than one
\* candidate, so after the walk the thumbnail of every successfully rendered
\* model holds the bytes rendered from that model.
C10_OneWriterPerThumbnail ==
    (report = "folder" /\ pc = "done") =>
        /\ \A i, j \in 1..Len(log) :
              (i # j /\ log[i].ret = "true" /\ log[j].ret = "true") => log[i].target # log[j].target
        /\ \A k \in 1..Len(log) :
              log[k].ret = "true" => files[log[k].target] = log[k].bytes

====
